---- MODULE Spec2Model ----
(***************************************************************************)
(* Model of backup/AndroidRemote/pause.py: the pairing-and-connection      *)
(* state machine of the Shield play/pause script.                          *)
(*                                                                         *)
(* A Python str is a sequence of one-character strings; an Optional[str]   *)
(* (os.getenv, argparse) is None == <<>> or Some(s) == <<s>>.              *)
(***************************************************************************)
EXTENDS Integers, Sequences, FiniteSets, TLC

VARIABLES
    envHost,      \* SHIELD_HOST in .env            (Optional[str])
    envCert,      \* SHIELD_CERT in .env            (Optional[str])
    certFile,     \* .shield_cert.pem exists
    keyFile,      \* .shield_key.pem exists
    argHost,      \* args.host                      (Optional[str])
    argRepair,    \* args.repair
    config,       \* load_config() result: [host, cert], read once per run
    filesAtStart, \* both identity files present when the run started
    pc,           \* position of the run
    host,         \* host returned by get_host_config (Optional[str], None before)
    cert_data,    \* cert_data of connect_and_pair_if_needed (Optional[str])
    needs_pairing,
    remote,       \* "none" | "created" | "connected" | "disconnected"
    pin,          \* the PIN about to be submitted
    success,      \* result of send_play_pause
    exitStatus,   \* process exit status, -1 while running
    hostPrompts,  \* host prompts issued in this run
    pinPrompts,   \* PIN prompts issued in this run
    runs,         \* number of runs started so far
    log,          \* the operations of this run, in order
    past,         \* earlier runs: the latest pairing, a failed pairing just before
    ipText,       \* the argument of a call of validate_ip on its own
    ipResult      \* its result: "none" before the call, "True" or "False"

vars == <<envHost, envCert, certFile, keyFile, argHost, argRepair, config,
          filesAtStart, pc, host, cert_data, needs_pairing, remote, pin,
          success, exitStatus, hostPrompts, pinPrompts, runs, log, past,
          ipText, ipResult>>

store == <<envHost, envCert>>
files == <<certFile, keyFile>>
args  == <<argHost, argRepair>>
ipcall == <<ipText, ipResult>>

(***************************************************************************)
(* Bounds                                                                  *)
(***************************************************************************)
MaxHostPrompts == 2
MaxPinPrompts  == 2
MaxRuns        == 2
MaxIpLen       == 9

(***************************************************************************)
(* Strings                                                                 *)
(***************************************************************************)
None    == <<>>
Some(s) == <<s>>

LF == "\n"
SP == " "

Digits     == <<"0", "1", "2", "3", "4", "5", "6", "7", "8", "9">>
DigitSet   == {Digits[i] : i \in 1..10}
Whitespace == {SP, LF}

DigitVal(c) == (CHOOSE i \in 1..10 : Digits[i] = c) - 1

\* Python truthiness of an Optional[str]: None and "" are false.
Truthy(o) == o # None /\ o[1] # <<>>

RECURSIVE lstrip(_)
lstrip(s) == IF s # <<>> /\ Head(s) \in Whitespace THEN lstrip(Tail(s)) ELSE s

RECURSIVE rstrip(_)
rstrip(s) ==
    IF s # <<>> /\ s[Len(s)] \in Whitespace
    THEN rstrip(SubSeq(s, 1, Len(s) - 1))
    ELSE s

\* str.strip()
strip(s) == rstrip(lstrip(s))

\* str.split('.'): the groups between the dots, empty groups kept.
RECURSIVE split(_)
split(s) ==
    IF \A i \in 1..Len(s) : s[i] # "."
    THEN <<s>>
    ELSE LET k == CHOOSE i \in 1..Len(s) :
                      s[i] = "." /\ \A j \in 1..(i - 1) : s[j] # "."
         IN  <<SubSeq(s, 1, k - 1)>> \o split(SubSeq(s, k + 1, Len(s)))

RECURSIVE DecVal(_)
DecVal(s) ==
    IF s = <<>> THEN 0 ELSE 10 * DecVal(SubSeq(s, 1, Len(s) - 1)) + DigitVal(s[Len(s)])

\* int(octet): surrounding whitespace is ignored.
int(s) == DecVal(strip(s))

\* \d{1,3}
IsOctetText(g) == Len(g) \in 1..3 /\ \A i \in 1..Len(g) : g[i] \in DigitSet

\* ^(\d{1,3}\.){3}\d{1,3} up to the end of the text
PatternFull(s) ==
    LET gs == split(s)
    IN  Len(gs) = 4 /\ \A i \in 1..4 : IsOctetText(gs[i])

\* re.match(pattern, ip): `$` matches at the end of the string and also just
\* before a newline that ends the string.
PatternMatch(ip) ==
    \/ PatternFull(ip)
    \/ /\ ip # <<>>
       /\ ip[Len(ip)] = LF
       /\ PatternFull(SubSeq(ip, 1, Len(ip) - 1))

validate_ip(ip) ==
    IF ~PatternMatch(ip)
    THEN FALSE
    ELSE LET octets == split(ip)
         IN  \A i \in 1..Len(octets) : 0 <= int(octets[i]) /\ int(octets[i]) <= 255


\* str.upper() on the letters that occur in the inputs below
Lower == <<"a", "b", "c", "d", "e", "f", "g">>
Upper == <<"A", "B", "C", "D", "E", "F", "G">>

upperChar(c) ==
    IF \E i \in 1..7 : Lower[i] = c
    THEN Upper[CHOOSE i \in 1..7 : Lower[i] = c]
    ELSE c

upper(s) == [i \in 1..Len(s) |-> upperChar(s[i])]

HexChars == DigitSet \cup {"A", "B", "C", "D", "E", "F"}

\* variant: only the length is tested
pin_format_ok_length_only(p) == Len(p) = 6

\* line 135, negated: the PIN is 6 hexadecimal characters
pin_format_ok(p) == ~(Len(p) # 6 \/ ~(\A i \in 1..Len(p) : p[i] \in HexChars))

\* line 145: base64("paired_" + host). The encoding is injective and is never
\* decoded: the marker is the tagged host text.
b64_paired(h) == <<"b64:paired_">> \o h

(***************************************************************************)
(* Inputs                                                                  *)
(***************************************************************************)
IP_A    == <<"1", "0", ".", "0", ".", "0", ".", "5">>
IP_B    == <<"1", "0", ".", "0", ".", "0", ".", "6">>
IP_BIG  == <<"1", "0", ".", "0", ".", "0", ".", "2", "5", "6">>
NOT_IP  == <<"x">>
IP_A_LF == IP_A \o <<LF>>
IP_A_SP == <<SP>> \o IP_A \o <<SP>>

\* --host: absent, empty, or a text
ArgHostValues == {None, Some(<<>>), Some(IP_A), Some(IP_B), Some(IP_BIG),
                  Some(NOT_IP), Some(IP_A_LF)}

\* SHIELD_HOST / SHIELD_CERT as found in .env (or the environment) at startup:
\* the file is plain text that the script does not own exclusively.
StoredHostValues == {None, Some(<<>>), Some(IP_A), Some(IP_B), Some(NOT_IP)}
StoredCertValues == {None, Some(<<>>), Some(b64_paired(IP_A))}

\* lines typed at the host prompt; EOF is the end of standard input
EOF == <<"<EOF>">>
HostLines == {IP_A_SP, IP_B, IP_BIG, NOT_IP, EOF}

\* lines typed at the PIN prompt
PIN_LOWER == <<SP, "4", "d", "2", "9", "2", "b", SP>>
PIN_SHORT == <<"4", "D", "2", "9", "2">>
PIN_BADCH == <<"4", "D", "2", "9", "2", "g">>
PinLines  == {PIN_LOWER, PIN_SHORT, PIN_BADCH, EOF}

\* str(e).lower() of an exception of async_finish_pairing, as far as line
\* 151-154 look at it: which of the three words the message contains.
ErrorWords    == {"invalid", "wrong", "reject"}
ErrorMessages == {{}, {"invalid"}, {"wrong"}, {"reject"}}

\* exceptions of the try block of connect_and_pair_if_needed (lines 234-265)
ConnectErrors == {"timeout", "refused", "gaierror", "unreachable", "oserror", "other"}

Entry(op, d) == [op |-> op, d |-> d]

(***************************************************************************)
(* Initial state: a first run about to start                               *)
(***************************************************************************)
Init ==
    /\ envHost \in StoredHostValues
    /\ envCert \in StoredCertValues
    /\ certFile \in BOOLEAN
    /\ keyFile \in BOOLEAN
    /\ argHost \in ArgHostValues
    /\ argRepair \in BOOLEAN
    /\ config = [host |-> envHost, cert |-> envCert]
    /\ filesAtStart = (certFile /\ keyFile)
    /\ pc = "main"
    /\ host = None
    /\ cert_data = None
    /\ needs_pairing = FALSE
    /\ remote = "none"
    /\ pin = <<>>
    /\ success = FALSE
    /\ exitStatus = -1
    /\ hostPrompts = 0
    /\ pinPrompts = 0
    /\ runs = 1
    /\ log = <<>>
    /\ past = [paired |-> {}, kept |-> FALSE]
    /\ ipText = <<>>
    /\ ipResult = "none"


(***************************************************************************)
(* Decisions of the code, one operator per condition                       *)
(***************************************************************************)
\* variant: the stored marker is never handed on
main_cert_always_none(repair, cfg) == None

\* line 312: cert = None if args.repair else config["cert"]
main_cert(repair, cfg) == IF repair THEN None ELSE cfg.cert

\* variant: pairing on every run, as with the temporary identity files the
\* docstring of connect_and_pair_if_needed describes
compute_needs_pairing_always(force_repair, cd) == TRUE

\* line 205: needs_pairing = force_repair or not cert_data
compute_needs_pairing(force_repair, cd) == force_repair \/ ~Truthy(cd)

\* variant: the condition of line 218 inverted
after_generate_cert_inverted(np) == IF np THEN "connect" ELSE "start_pairing"

\* line 218: the branch taken once the identity files exist
after_generate_cert(np) == IF np THEN "start_pairing" ELSE "connect"

\* variant: the `return None` of line 226 missing
after_pairing_falls_through(cd) == "connect"

\* lines 221-226: pair_with_shield returned cd
after_pairing(cd) == IF Truthy(cd) THEN "connect" ELSE "FAILED"

\* variant: every exception of async_finish_pairing ends the pairing
after_finish_error_never_retries(msg) == "FAILED"

\* variant: a rejection on the device re-prompts like a wrong PIN
after_finish_error_retry_reject(msg) ==
    IF "invalid" \in msg \/ "wrong" \in msg \/ "reject" \in msg
    THEN "pin_prompt"
    ELSE "FAILED"

\* lines 151-159: what an exception of async_finish_pairing leads to
after_finish_error(msg) ==
    IF "invalid" \in msg \/ "wrong" \in msg
    THEN "pin_prompt"
    ELSE IF "reject" \in msg THEN "FAILED" ELSE "FAILED"

\* variant: a failed connection is tried again
after_connect_retry(ok) == IF ok THEN "send" ELSE "connect"

\* variant: the `if not remote` test of line 284 missing
after_connect_ignores_failure(ok) == "send"

\* lines 284-285: `if not remote: return False`, else the command is sent
after_connect(ok) == IF ok THEN "send" ELSE "FAILED"

\* variant: an early `return False` after a failed send, before disconnect
after_send_return_on_failure(s) == IF s THEN "disconnect" ELSE "FAILED"

\* variant: a failed send is tried again
after_send_retry(s) == IF s THEN "disconnect" ELSE "send"

\* lines 288-291: the channel is released whatever send_play_pause returned
after_send(s) == "disconnect"

\* variant: the status does not depend on the outcome
main_async_status_zero(s) == 0

\* line 301: return 0 if success else 1
main_async_status(s) == IF s THEN 0 ELSE 1

\* the exit status a position stands for while the run is over
StatusAt(p, s) == IF p = "FAILED" THEN 1 ELSE IF p = "DONE" THEN s ELSE -1

Terminal == pc \in {"DONE", "FAILED"}

(***************************************************************************)
(* main / get_host_config                                                  *)
(***************************************************************************)
\* lines 306-309 and 83-92: parse_args, load_config, the non-interactive part
\* of get_host_config
main_get_host_config ==
    /\ pc = "main"
    /\ IF Truthy(argHost)
       THEN IF ~validate_ip(argHost[1])
            THEN /\ pc' = "FAILED"
                 /\ exitStatus' = 1
                 /\ host' = host
                 /\ log' = Append(log, Entry("sys_exit", {"invalid_host_arg"}))
            ELSE /\ pc' = "connect_and_pair"
                 /\ host' = Some(argHost[1])
                 /\ UNCHANGED <<exitStatus, log>>
       ELSE IF Truthy(config.host)
            THEN /\ pc' = "connect_and_pair"
                 /\ host' = Some(config.host[1])
                 /\ UNCHANGED <<exitStatus, log>>
            ELSE /\ pc' = "host_prompt"
                 /\ UNCHANGED <<host, exitStatus, log>>
    /\ UNCHANGED <<store, files, args, config, filesAtStart, cert_data,
                   needs_pairing, remote, pin, success, hostPrompts,
                   pinPrompts, runs, past, ipcall>>

\* lines 95-102: one round of the host prompt. End of input raises EOFError,
\* which nothing catches: the interpreter exits with status 1.
get_host_config_prompt ==
    /\ pc = "host_prompt"
    /\ hostPrompts < MaxHostPrompts
    /\ hostPrompts' = hostPrompts + 1
    /\ \E line \in HostLines :
          IF line = EOF
          THEN /\ pc' = "FAILED"
               /\ exitStatus' = 1
               /\ log' = Append(log, Entry("host_prompt", {"eof"}))
               /\ UNCHANGED <<host, envHost>>
          ELSE IF validate_ip(strip(line))
               THEN /\ envHost' = Some(strip(line))
                    /\ host' = Some(strip(line))
                    /\ pc' = "connect_and_pair"
                    /\ log' = log \o <<Entry("host_prompt", {"valid"}),
                                       Entry("save_host", {})>>
                    /\ UNCHANGED exitStatus
               ELSE /\ pc' = "host_prompt"
                    /\ log' = Append(log, Entry("host_prompt", {"invalid"}))
                    /\ UNCHANGED <<host, envHost, exitStatus>>
    /\ UNCHANGED <<envCert, files, args, config, filesAtStart, cert_data,
                   needs_pairing, remote, pin, success, pinPrompts, runs, past, ipcall>>

(***************************************************************************)
(* connect_and_pair_if_needed                                              *)
(***************************************************************************)
\* lines 312, 205-218: the marker handed in, needs_pairing, the AndroidTVRemote
\* object and async_generate_cert_if_missing (which writes the two identity
\* files when they are missing). An exception ends in one of the handlers of
\* lines 234-265, which all return None.
connect_generate_cert ==
    /\ pc = "connect_and_pair"
    /\ cert_data' = main_cert(argRepair, config)
    /\ needs_pairing' = compute_needs_pairing(argRepair, cert_data')
    /\ \/ /\ remote' = "created"
          /\ certFile' = TRUE
          /\ keyFile' = TRUE
          /\ pc' = after_generate_cert(needs_pairing')
          /\ log' = Append(log, Entry("generate_cert", {"ok"}))
          /\ UNCHANGED exitStatus
       \/ \E e \in ConnectErrors :
             /\ pc' = "FAILED"
             /\ exitStatus' = 1
             /\ log' = Append(log, Entry("generate_cert", {e}))
             /\ UNCHANGED <<remote, files>>
    /\ UNCHANGED <<store, args, config, filesAtStart, host, pin, success,
                   hostPrompts, pinPrompts, runs, past, ipcall>>

\* variant: save_config is called before the `if cert_data` test
pairing_returned_saves_always(cd, entries) ==
    /\ cert_data' = cd
    /\ pc' = after_pairing(cd)
    /\ exitStatus' = StatusAt(pc', 1)
    /\ envCert' = cd
    /\ log' = log \o entries \o
                  <<Entry("pair_return", IF Truthy(cd) THEN {"marker"} ELSE {"None"}),
                    Entry("save_cert", {})>>

\* variant: a failed pairing clears the stored marker
pairing_returned_clears_on_failure(cd, entries) ==
    /\ cert_data' = cd
    /\ pc' = after_pairing(cd)
    /\ exitStatus' = StatusAt(pc', 1)
    /\ IF Truthy(cd)
       THEN /\ envCert' = cd
            /\ log' = log \o entries \o <<Entry("pair_return", {"marker"}),
                                          Entry("save_cert", {})>>
       ELSE /\ envCert' = None
            /\ log' = log \o entries \o <<Entry("pair_return", {"None"})>>

\* lines 220-226 once pair_with_shield has returned cd: the marker is saved and
\* the connection follows, or the run ends with "Pairing failed."
pairing_returned(cd, entries) ==
    /\ cert_data' = cd
    /\ pc' = after_pairing(cd)
    /\ exitStatus' = StatusAt(pc', 1)
    /\ IF Truthy(cd)
       THEN /\ envCert' = cd
            /\ log' = log \o entries \o <<Entry("pair_return", {"marker"}),
                                          Entry("save_cert", {})>>
       ELSE /\ envCert' = envCert
            /\ log' = log \o entries \o <<Entry("pair_return", {"None"})>>

\* lines 125-129, 161-163: async_start_pairing
pair_start_pairing ==
    /\ pc = "start_pairing"
    /\ \/ /\ pc' = "pin_prompt"
          /\ log' = Append(log, Entry("start_pairing", {"ok"}))
          /\ UNCHANGED <<cert_data, exitStatus, envCert>>
       \/ pairing_returned(None, <<Entry("start_pairing", {"err"})>>)
    /\ UNCHANGED <<envHost, files, args, config, filesAtStart, host,
                   needs_pairing, remote, pin, success, hostPrompts,
                   pinPrompts, runs, past, ipcall>>

\* lines 132-137: one round of the PIN prompt. End of input raises EOFError
\* inside the outer try: lines 161-163 return None.
pair_input_pin ==
    /\ pc = "pin_prompt"
    /\ pinPrompts < MaxPinPrompts
    /\ pinPrompts' = pinPrompts + 1
    /\ \E line \in PinLines :
          IF line = EOF
          THEN /\ pairing_returned(None, <<Entry("pin_prompt", {"eof"})>>)
               /\ pin' = pin
          ELSE IF pin_format_ok(upper(strip(line)))
               THEN /\ pin' = upper(strip(line))
                    /\ pc' = "finish_pairing"
                    /\ log' = Append(log, Entry("pin_prompt", {"valid"}))
                    /\ UNCHANGED <<cert_data, exitStatus, envCert>>
               ELSE /\ pin' = upper(strip(line))
                    /\ pc' = "pin_prompt"
                    /\ log' = Append(log, Entry("pin_prompt", {"malformed"}))
                    /\ UNCHANGED <<cert_data, exitStatus, envCert>>
    /\ UNCHANGED <<envHost, files, args, config, filesAtStart, host,
                   needs_pairing, remote, success, hostPrompts, runs, past, ipcall>>

\* lines 139-159: async_finish_pairing(pin)
pair_finish_pairing ==
    /\ pc = "finish_pairing"
    /\ \/ pairing_returned(Some(b64_paired(host[1])),
                           <<Entry("finish_pairing", {"ok"})>>)
       \/ \E msg \in ErrorMessages :
             IF after_finish_error(msg) = "pin_prompt"
             THEN /\ pc' = "pin_prompt"
                  /\ log' = Append(log, Entry("finish_pairing", {"err"} \cup msg))
                  /\ UNCHANGED <<cert_data, exitStatus, envCert>>
             ELSE pairing_returned(None,
                                   <<Entry("finish_pairing", {"err"} \cup msg)>>)
    /\ UNCHANGED <<envHost, files, args, config, filesAtStart, host,
                   needs_pairing, remote, pin, success, hostPrompts,
                   pinPrompts, runs, past, ipcall>>

\* lines 229-265 and 282-285: async_connect
connect_async_connect ==
    /\ pc = "connect"
    /\ \/ /\ remote' = "connected"
          /\ pc' = after_connect(TRUE)
          /\ log' = Append(log, Entry("connect", {"ok"}))
       \/ \E e \in ConnectErrors :
             /\ remote' = remote
             /\ pc' = after_connect(FALSE)
             /\ log' = Append(log, Entry("connect", {e}))
    /\ exitStatus' = StatusAt(pc', 1)
    /\ UNCHANGED <<store, files, args, config, filesAtStart, host, cert_data,
                   needs_pairing, pin, success, hostPrompts, pinPrompts, runs, past, ipcall>>

(***************************************************************************)
(* send_play_pause / run_pause_command / main_async                        *)
(***************************************************************************)
\* lines 268-277 and 288
send_play_pause ==
    /\ pc = "send"
    /\ \/ /\ success' = TRUE
          /\ log' = Append(log, Entry("send", {"ok"}))
       \/ /\ success' = FALSE
          /\ log' = Append(log, Entry("send", {"err"}))
    /\ pc' = after_send(success')
    /\ exitStatus' = StatusAt(pc', 1)
    /\ UNCHANGED <<store, files, args, config, filesAtStart, host, cert_data,
                   needs_pairing, remote, pin, hostPrompts, pinPrompts, runs, past, ipcall>>

\* lines 291-293, 299-301, 315, 319
run_disconnect ==
    /\ pc = "disconnect"
    /\ remote' = "disconnected"
    /\ log' = Append(log, Entry("disconnect", {}))
    /\ exitStatus' = main_async_status(success)
    /\ pc' = IF exitStatus' = 0 THEN "DONE" ELSE "FAILED"
    /\ UNCHANGED <<store, files, args, config, filesAtStart, host, cert_data,
                   needs_pairing, pin, success, hostPrompts, pinPrompts, runs, past, ipcall>>

\* The script is started again: new arguments, the .env file and the identity
\* files as the previous run left them.  past.paired is the host and the exit
\* status of the latest run that paired, past.kept says that the run just
\* ended failed to pair over a stored marker.
NewRun ==
    /\ Terminal
    /\ runs < MaxRuns
    /\ runs' = runs + 1
    /\ past' = [paired |-> IF \E i \in DOMAIN log : log[i] = Entry("pair_return", {"marker"})
                            THEN {[host |-> host[1], status |-> exitStatus]}
                            ELSE past.paired,
                kept |-> /\ \E i \in DOMAIN log : log[i] = Entry("pair_return", {"None"})
                         /\ Truthy(config.cert)]
    /\ argHost' \in ArgHostValues
    /\ argRepair' \in BOOLEAN
    /\ config' = [host |-> envHost, cert |-> envCert]
    /\ filesAtStart' = (certFile /\ keyFile)
    /\ pc' = "main"
    /\ host' = None
    /\ cert_data' = None
    /\ needs_pairing' = FALSE
    /\ remote' = "none"
    /\ pin' = <<>>
    /\ success' = FALSE
    /\ exitStatus' = -1
    /\ hostPrompts' = 0
    /\ pinPrompts' = 0
    /\ log' = <<>>
    /\ UNCHANGED <<store, files, ipcall>>

Next ==
    \/ main_get_host_config
    \/ get_host_config_prompt
    \/ connect_generate_cert
    \/ pair_start_pairing
    \/ pair_input_pin
    \/ pair_finish_pairing
    \/ connect_async_connect
    \/ send_play_pause
    \/ run_disconnect
    \/ NewRun

Spec == Init /\ [][Next]_vars


(***************************************************************************)
(* The log of the current run                                              *)
(***************************************************************************)
Ops(op)     == {i \in DOMAIN log : log[i].op = op}
Has(op)     == Ops(op) # {}
OpsWith(op, w) == {i \in DOMAIN log : log[i].op = op /\ w \in log[i].d}
HasWith(op, w) == OpsWith(op, w) # {}

\* pair_with_shield returned None / a marker at position i
PairFailedAt(i) == log[i].op = "pair_return" /\ "None" \in log[i].d
PairedAt(i)     == log[i].op = "pair_return" /\ "marker" \in log[i].d

\* operations that talk to the device
NetworkOps == {"start_pairing", "finish_pairing", "connect", "send", "disconnect"}
\* operations that ask the user
PromptOps  == {"host_prompt", "pin_prompt"}
\* operations that write .env
SaveOps    == {"save_host", "save_cert"}
\* operations of the Pairing Negotiator
PairingOps == {"start_pairing", "pin_prompt", "finish_pairing", "pair_return"}

InPairing == pc \in {"start_pairing", "pin_prompt", "finish_pairing"}

(***************************************************************************)
(* C1 - Failure isolation: once pair_with_shield has returned None          *)
(* (rejection on the device, any other handshake error, or failure to      *)
(* initiate the handshake), the run makes no connection attempt and sends  *)
(* no key afterwards; it is in FAILED with exit status 1.                  *)
(***************************************************************************)
C1_FailureIsolation ==
    \A i \in DOMAIN log :
        PairFailedAt(i) =>
            /\ \A j \in DOMAIN log : j > i => log[j].op \notin {"connect", "send"}
            /\ pc = "FAILED"
            /\ exitStatus = 1
            /\ remote # "connected"

\* scenario 5: a wrong PIN re-prompts once, the second submission is rejected
\* on the device
C1_Witness ==
    /\ \E i \in OpsWith("finish_pairing", "invalid") :
       \E j \in OpsWith("finish_pairing", "reject") :
           i < j /\ "invalid" \notin log[j].d /\ "wrong" \notin log[j].d
    /\ \E i \in DOMAIN log : PairFailedAt(i)
    /\ pc = "FAILED"

(***************************************************************************)
(* C2 - With force_repair = TRUE the pairing branch is always entered,     *)
(* whatever the stored marker: once the identity files are ready the run   *)
(* is in the pairing branch, and every connection attempt is preceded by a *)
(* pairing that succeeded in the same run.                                 *)
(***************************************************************************)
C2_RepairForcesPairing ==
    argRepair =>
        /\ pc # "connect" \/ \E j \in DOMAIN log : PairedAt(j)
        /\ \A i \in Ops("connect") : \E j \in 1..(i - 1) : PairedAt(j)
        /\ HasWith("generate_cert", "ok") => (pc = "start_pairing" \/ Has("start_pairing"))

\* --repair with a marker in .env: paired again, then connected
C2_Witness ==
    /\ argRepair
    /\ Truthy(config.cert)
    /\ Has("start_pairing")
    /\ Has("connect")

C4_StaleMarkerRepairs ==
    ~filesAtStart =>
        /\ pc # "connect" \/ \E j \in DOMAIN log : PairedAt(j)
        /\ \A i \in Ops("connect") : \E j \in 1..(i - 1) : PairedAt(j)

(***************************************************************************)
(* C5 - Once the channel is open (async_connect succeeded) it is released  *)
(* exactly once before the run ends, whether the send succeeded or failed: *)
(* no run is over with an open channel, disconnect follows the connect,    *)
(* and is called once.                                                     *)
(***************************************************************************)
C5_ChannelReleased ==
    /\ Cardinality(Ops("disconnect")) <= 1
    /\ \A i \in Ops("disconnect") : \E j \in 1..(i - 1) : log[j] = Entry("connect", {"ok"})
    /\ Terminal =>
          /\ remote # "connected"
          /\ HasWith("connect", "ok") =>
                (Cardinality(Ops("disconnect")) = 1 /\ remote = "disconnected")

\* a run that ended after a failed send, the channel released
C5_Witness ==
    /\ Terminal
    /\ HasWith("send", "err")
    /\ Has("disconnect")
    /\ remote = "disconnected"

(***************************************************************************)
(* C6 - The exit status is 0 if and only if the key event was sent         *)
(* successfully over an opened channel; every other run that is over       *)
(* (invalid --host, pairing failure, connection failure, send failure)     *)
(* exits with status 1. A run that is not over has no exit status.         *)
(***************************************************************************)
C6_ExitStatus ==
    /\ Terminal =>
          /\ exitStatus \in {0, 1}
          /\ exitStatus = 0 <=>
                \E i \in OpsWith("send", "ok") :
                    \E j \in 1..(i - 1) : log[j] = Entry("connect", {"ok"})
    /\ ~Terminal => exitStatus = -1

\* a run that ended with status 1 because the send failed
C6_Witness ==
    /\ Terminal
    /\ exitStatus = 1
    /\ HasWith("send", "err")

(***************************************************************************)
(* C7 - At most one key event is sent per run, only while the channel is   *)
(* open (after a successful connect, before disconnect), and a failed send *)
(* is not retried.                                                         *)
(***************************************************************************)
C7_SingleSend ==
    /\ Cardinality(Ops("send")) <= 1
    /\ \A i \in Ops("send") :
          /\ \E j \in 1..(i - 1) : log[j] = Entry("connect", {"ok"})
          /\ \A j \in 1..(i - 1) : log[j].op # "disconnect"
    /\ pc = "send" => remote = "connected"
    /\ HasWith("send", "err") => pc \in {"disconnect", "FAILED"}

\* a failed send, and the run over
C7_Witness ==
    /\ HasWith("send", "err")
    /\ pc = "FAILED"

(***************************************************************************)
(* C8 - as claimed: every --host value that does not pass validate_ip ends *)
(* the run with status 1 before any network activity (no certificate       *)
(* generation, pairing or connect), with no prompt and no write of .env;   *)
(* the supplied value is never replaced by the stored or prompted host.    *)
(***************************************************************************)
C8_InvalidHostArgExits ==
    (argHost # None /\ ~validate_ip(argHost[1]) /\ pc # "main") =>
        /\ pc = "FAILED"
        /\ exitStatus = 1
        /\ host = None
        /\ \A i \in DOMAIN log : log[i].op = "sys_exit"

(***************************************************************************)
(* C9 - as claimed: every host used for network activity (pairing or       *)
(* connect) satisfies the IP validator, whether it came from --host, from  *)
(* .env or from the prompt.                                                *)
(***************************************************************************)
C9_EndpointValid ==
    (\E i \in DOMAIN log : log[i].op \in NetworkOps) =>
        (host # None /\ validate_ip(host[1]))

(***************************************************************************)
(* C10 - An exception of async_finish_pairing whose message reports        *)
(* neither an invalid nor a wrong PIN (a rejection on the device, a        *)
(* network drop, a malformed response) makes pair_with_shield return None  *)
(* at once: no further PIN prompt and no further submission in that run.   *)
(***************************************************************************)
C10_OtherErrorAborts ==
    \A i \in OpsWith("finish_pairing", "err") :
        ("invalid" \notin log[i].d /\ "wrong" \notin log[i].d) =>
            /\ i < Len(log) /\ PairFailedAt(i + 1)
            /\ \A j \in DOMAIN log : j > i =>
                  log[j].op \notin {"pin_prompt", "finish_pairing", "start_pairing", "connect"}
            /\ pc = "FAILED"

\* the first submission fails with a message that names no reason
C10_Witness ==
    /\ \E i \in DOMAIN log : log[i] = Entry("finish_pairing", {"err"})
    /\ pc = "FAILED"
    /\ Cardinality(Ops("pin_prompt")) = 1


(***************************************************************************)
(* C11 - A PIN is submitted (async_finish_pairing) only if, stripped and   *)
(* upper-cased, it is exactly 6 characters of 0-9A-F; any other input is   *)
(* followed by a new prompt, with no submission and with the handshake,    *)
(* the marker and .env as they were.                                       *)
(***************************************************************************)
IsHexPin(p) ==
    /\ Len(p) = 6
    /\ \A i \in 1..Len(p) :
          p[i] \in {"0", "1", "2", "3", "4", "5", "6", "7", "8", "9",
                    "A", "B", "C", "D", "E", "F"}

C11_PinFormatGate ==
    /\ pc = "finish_pairing" => IsHexPin(pin)
    /\ \A i \in Ops("finish_pairing") :
          i > 1 /\ log[i - 1] = Entry("pin_prompt", {"valid"})
    /\ (log # <<>> /\ log[Len(log)] = Entry("pin_prompt", {"valid"})) =>
          (IsHexPin(pin) /\ pc = "finish_pairing")
    /\ (log # <<>> /\ log[Len(log)] = Entry("pin_prompt", {"malformed"})) =>
          /\ ~IsHexPin(pin)
          /\ pc = "pin_prompt"
          /\ exitStatus = -1
          /\ remote = "created"
          /\ cert_data = main_cert(argRepair, config)
          /\ envCert = config.cert
    /\ \A i \in OpsWith("pin_prompt", "malformed") :
          i < Len(log) => log[i + 1].op = "pin_prompt"

\* a malformed line, then a well-formed one typed in lower case, submitted
C11_Witness ==
    \E i \in DOMAIN log :
        /\ i + 2 <= Len(log)
        /\ log[i] = Entry("pin_prompt", {"malformed"})
        /\ log[i + 1] = Entry("pin_prompt", {"valid"})
        /\ log[i + 2].op = "finish_pairing"
        /\ pin = <<"4", "D", "2", "9", "2", "B">>


(***************************************************************************)
(* C12 - An exception of async_finish_pairing that reports an invalid or   *)
(* wrong PIN is recoverable: the PIN prompt comes next, within the same    *)
(* handshake (async_start_pairing is not called again), and a submission   *)
(* that then succeeds ends the pairing in success: the marker of this host *)
(* is written to .env and the connection is attempted.                     *)
(***************************************************************************)
C12_WrongPinRecoverable ==
    /\ \A i \in OpsWith("finish_pairing", "err") :
          ("invalid" \in log[i].d \/ "wrong" \in log[i].d) =>
              /\ i = Len(log) => (pc = "pin_prompt" /\ exitStatus = -1)
              /\ i < Len(log) => log[i + 1].op = "pin_prompt"
    /\ Cardinality(Ops("start_pairing")) <= 1
    /\ \A i \in OpsWith("finish_pairing", "ok") :
          /\ i + 2 <= Len(log)
          /\ PairedAt(i + 1)
          /\ log[i + 2].op = "save_cert"
          /\ envCert = Some(b64_paired(host[1]))
          /\ pc = "connect" \/ Has("connect")

\* a wrong PIN, a second PIN accepted, the connection attempted
C12_Witness ==
    /\ \E i \in OpsWith("finish_pairing", "wrong") :
       \E j \in OpsWith("finish_pairing", "ok") : i < j
    /\ Has("save_cert")
    /\ Has("connect")


(***************************************************************************)
(* C13 - Credentials persist across runs: once a run has paired with a     *)
(* host, every later run against the same .env and the same host without   *)
(* --repair skips pairing and goes straight to connect, also when the      *)
(* earlier run's connection or send failed after the pairing.  (Checked    *)
(* for the latest pairing: past.paired keeps the latest run that paired.)  *)
(***************************************************************************)
PairedBefore(h) == \E p \in past.paired : p.host = h

C14_NoAutomaticRetry ==
    /\ Cardinality(Ops("start_pairing")) <= 1
    /\ Cardinality(Ops("connect")) <= 1
    /\ \A i \in Ops("connect") :
          "ok" \notin log[i].d =>
              (i = Len(log) /\ pc = "FAILED" /\ exitStatus = 1)

\* paired in this run, then the connection was refused
C14_Witness ==
    /\ Has("save_cert")
    /\ HasWith("connect", "refused")
    /\ pc = "FAILED"

(***************************************************************************)
(* C15 - When the connection attempt fails (timeout, refused, resolution   *)
(* failure, network unreachable, other I/O error or any other exception)   *)
(* no channel exists: the run exits with status 1, has sent no key event   *)
(* and has made no disconnect call.                                        *)
(***************************************************************************)
C15_FailedConnectNoChannel ==
    \A i \in Ops("connect") :
        "ok" \notin log[i].d =>
            /\ log[i].d \subseteq ConnectErrors
            /\ pc = "FAILED"
            /\ exitStatus = 1
            /\ remote = "created"
            /\ ~Has("send")
            /\ ~Has("disconnect")

\* scenario 4: the connection attempt times out
C15_Witness ==
    /\ HasWith("connect", "timeout")
    /\ pc = "FAILED"
    /\ exitStatus = 1


(***************************************************************************)
(* validate_ip on its own: the text is built character by character, then  *)
(* validate_ip is called on it                                             *)
(***************************************************************************)
IpChars == {"9", ".", "x", LF}

runvars == <<envHost, envCert, certFile, keyFile, argHost, argRepair, config,
             filesAtStart, host, cert_data, needs_pairing, remote, pin,
             success, exitStatus, hostPrompts, pinPrompts, runs, log, past>>

InitIP ==
    /\ envHost = None
    /\ envCert = None
    /\ certFile = FALSE
    /\ keyFile = FALSE
    /\ argHost = None
    /\ argRepair = FALSE
    /\ config = [host |-> None, cert |-> None]
    /\ filesAtStart = FALSE
    /\ pc = "ip_build"
    /\ host = None
    /\ cert_data = None
    /\ needs_pairing = FALSE
    /\ remote = "none"
    /\ pin = <<>>
    /\ success = FALSE
    /\ exitStatus = -1
    /\ hostPrompts = 0
    /\ pinPrompts = 0
    /\ runs = 1
    /\ log = <<>>
    /\ past = [paired |-> {}, kept |-> FALSE]
    /\ ipText = <<>>
    /\ ipResult = "none"

ip_append ==
    /\ pc = "ip_build"
    /\ Len(ipText) < MaxIpLen
    /\ \E c \in IpChars : ipText' = Append(ipText, c)
    /\ UNCHANGED <<pc, ipResult, runvars>>

\* lines 60-68
ip_validate ==
    /\ pc = "ip_build"
    /\ ipResult' = IF validate_ip(ipText) THEN "True" ELSE "False"
    /\ pc' = "ip_done"
    /\ UNCHANGED <<ipText, runvars>>

NextIP == ip_append \/ ip_validate

SpecIP == InitIP /\ [][NextIP]_vars

(***************************************************************************)
(* C16 - as claimed: validate_ip(s) is true exactly for the texts that     *)
(* consist of four dot-separated decimal groups, each with a value in      *)
(* [0,255], and false for every other text (group out of range,            *)
(* non-numeric group, wrong group count, empty group).                     *)
(***************************************************************************)
IsDecimalGroup(s, a, b) ==
    /\ a <= b
    /\ \A i \in a..b : s[i] \in {"0", "1", "2", "3", "4", "5", "6", "7", "8", "9"}
    /\ DecVal(SubSeq(s, a, b)) \in 0..255

FourGroups(s) ==
    \E d1 \in 1..Len(s) :
        /\ s[d1] = "."
        /\ IsDecimalGroup(s, 1, d1 - 1)
        /\ \E d2 \in (d1 + 1)..Len(s) :
              /\ s[d2] = "."
              /\ IsDecimalGroup(s, d1 + 1, d2 - 1)
              /\ \E d3 \in (d2 + 1)..Len(s) :
                    /\ s[d3] = "."
                    /\ IsDecimalGroup(s, d2 + 1, d3 - 1)
                    /\ IsDecimalGroup(s, d3 + 1, Len(s))

C16_ValidateIpExact ==
    ipResult # "none" => (ipResult = "True" <=> FourGroups(ipText))


(***************************************************************************)
(* C17 - .env is written at most twice per run, at most once for the host  *)
(* and at most once for the marker: the host only right after an           *)
(* interactive entry that passed validation, the marker only right after   *)
(* the pairing of this run succeeded and before the connection attempt.    *)
(* Without such a write the stored value is the one read at startup.       *)
(***************************************************************************)
C17_StoreWrites ==
    /\ Cardinality(Ops("save_host")) <= 1
    /\ Cardinality(Ops("save_cert")) <= 1
    /\ \A i \in Ops("save_host") :
          /\ i > 1 /\ log[i - 1] = Entry("host_prompt", {"valid"})
          /\ envHost = host
          /\ FourGroups(host[1])
    /\ \A i \in Ops("save_cert") :
          /\ i > 1 /\ PairedAt(i - 1)
          /\ \A j \in Ops("connect") : j > i
    /\ ~Has("save_host") => envHost = config.host
    /\ ~Has("save_cert") => envCert = config.cert

\* both writes in one run: the host typed at the prompt, then the marker
C17_Witness ==
    /\ Has("save_host")
    /\ Has("save_cert")
    /\ Has("connect")

C19_MarkerScopedToHost ==
    (/\ Has("connect")
     /\ ~Has("start_pairing")
     /\ \E p \in past.paired : config.cert = Some(b64_paired(p.host))) =>
        config.cert = Some(b64_paired(host[1]))


(***************************************************************************)
(* One run, which keeps going: every await returns or raises, and every    *)
(* prompt is answered, so a step that can be taken is taken.               *)
(***************************************************************************)
RunStep ==
    \/ main_get_host_config
    \/ get_host_config_prompt
    \/ connect_generate_cert
    \/ pair_start_pairing
    \/ pair_input_pin
    \/ pair_finish_pairing
    \/ connect_async_connect
    \/ send_play_pause
    \/ run_disconnect

\* the script has not been started yet
FairInit ==
    /\ envHost = None
    /\ envCert = None
    /\ certFile = FALSE
    /\ keyFile = FALSE
    /\ argHost = None
    /\ argRepair = FALSE
    /\ config = [host |-> None, cert |-> None]
    /\ filesAtStart = FALSE
    /\ pc = "boot"
    /\ host = None
    /\ cert_data = None
    /\ needs_pairing = FALSE
    /\ remote = "none"
    /\ pin = <<>>
    /\ success = FALSE
    /\ exitStatus = -1
    /\ hostPrompts = 0
    /\ pinPrompts = 0
    /\ runs = 1
    /\ log = <<>>
    /\ past = [paired |-> {}, kept |-> FALSE]
    /\ ipText = <<>>
    /\ ipResult = "none"

\* the script is started: its arguments, .env and the identity files are as
\* in Init
boot ==
    /\ pc = "boot"
    /\ envHost' \in StoredHostValues
    /\ envCert' \in StoredCertValues
    /\ certFile' \in BOOLEAN
    /\ keyFile' \in BOOLEAN
    /\ argHost' \in ArgHostValues
    /\ argRepair' \in BOOLEAN
    /\ config' = [host |-> envHost', cert |-> envCert']
    /\ filesAtStart' = (certFile' /\ keyFile')
    /\ pc' = "main"
    /\ UNCHANGED <<host, cert_data, needs_pairing, remote, pin, success,
                   exitStatus, hostPrompts, pinPrompts, runs, log, past, ipcall>>

FairNext == boot \/ RunStep

\* every step of a run but its first one
RunOn ==
    \/ get_host_config_prompt
    \/ connect_generate_cert
    \/ pair_start_pairing
    \/ pair_input_pin
    \/ pair_finish_pairing
    \/ connect_async_connect
    \/ send_play_pause
    \/ run_disconnect

\* the first step of a run, by what it can change: main_get_host_config is the
\* only action at "main", it has no guard but the position, and every step it
\* takes is a step of this shape (C20_Terminates checks that)
leave_main ==
    /\ pc = "main"
    /\ pc' \in {"FAILED", "connect_and_pair", "host_prompt"}
    /\ host' \in {host, argHost, config.host}
    /\ exitStatus' \in {exitStatus, 1}
    /\ log' \in {log, Append(log, Entry("sys_exit", {"invalid_host_arg"}))}
    /\ UNCHANGED <<store, files, args, config, filesAtStart, cert_data,
                   needs_pairing, remote, pin, success, hostPrompts,
                   pinPrompts, runs, past, ipcall>>

\* The script is one flow of control: once started it takes its next step
\* whenever it has one.
FairSpec ==
    /\ FairInit
    /\ [][FairNext]_vars
    /\ WF_vars(boot)
    /\ WF_vars(leave_main)
    /\ WF_vars(RunOn)

\* how far a position is along START .. DONE / FAILED
Rank(p) ==
    CASE p = "boot"             -> -1
      [] p = "main"             -> 0
      [] p = "host_prompt"      -> 1
      [] p = "connect_and_pair" -> 2
      [] p = "start_pairing"    -> 3
      [] p = "pin_prompt"       -> 4
      [] p = "finish_pairing"   -> 5
      [] p = "connect"          -> 6
      [] p = "send"             -> 7
      [] p = "disconnect"       -> 8
      [] OTHER                  -> 9

\* a step of the PIN loop that prompts again: a malformed line, or a submission
\* answered with an invalid/wrong PIN report
PinLoopStep  == pc \in {"pin_prompt", "finish_pairing"} /\ pc' = "pin_prompt"
\* a step of the host prompt loop that prompts again
HostLoopStep == pc = "host_prompt" /\ pc' = "host_prompt"

\* every prompt allowed by the bound was answered with an input that prompts
\* again: the run of bad inputs goes on
PinInputsAllBad  == pc = "pin_prompt" /\ pinPrompts = MaxPinPrompts
HostInputsAllBad == pc = "host_prompt" /\ hostPrompts = MaxHostPrompts

(***************************************************************************)
(* C20 - as claimed: every run ends in DONE or FAILED unless the PIN       *)
(* prompt keeps receiving malformed or wrong PINs: the PIN loop is the     *)
(* only cycle, every other step moves the run forward.                     *)
(***************************************************************************)
C20_Original ==
    /\ [][Rank(pc') > Rank(pc) \/ PinLoopStep]_vars
    /\ <>(Terminal \/ PinInputsAllBad)

(***************************************************************************)
(* C20 - amended: every run ends in DONE or FAILED unless the host prompt  *)
(* keeps receiving invalid addresses or the PIN prompt keeps receiving     *)
(* malformed or wrong PINs: the host prompt loop and the PIN loop are the  *)
(* only cycles, and each of their iterations either prompts again or       *)
(* leaves the loop; every other step moves the run forward.                *)
(***************************************************************************)
C20_Terminates ==
    /\ [][Rank(pc') > Rank(pc) \/ PinLoopStep \/ HostLoopStep]_vars
    /\ [][pc = "main" => leave_main]_vars
    /\ <>(Terminal \/ PinInputsAllBad \/ HostInputsAllBad)

\* a run that went round both loops and ended in DONE
C20_Witness ==
    /\ pc = "DONE"
    /\ HasWith("host_prompt", "invalid")
    /\ HasWith("pin_prompt", "malformed")

====
